---- MODULE Spec2Model ----
(***************************************************************************)
(* L.GriddedGlyph (src/src/index.js, second definition, lines 298-1325):   *)
(* a canvas layer that buckets the point features of a GeoJSON layer into  *)
(* grid cells, either with a cached static pass or with throttled dynamic  *)
(* reaggregation.                                                          *)
(*                                                                         *)
(* Conventions of the model                                                *)
(*  - null / undefined is the empty tuple <<>>, a present value v is <<v>>, *)
(*    so that `a !== b` is plain inequality of the wrapped values.         *)
(*  - the host map projects a ground point (lat, lng) to the container     *)
(*    point (lng * 2^zoom - pan.x, -lat * 2^zoom - pan.y); ground           *)
(*    coordinates that result from un-projecting a pixel are kept          *)
(*    multiplied by 2^zoom so that they stay integers.                     *)
(*  - time is counted in milliseconds relative to the pending timers.      *)
(***************************************************************************)
EXTENDS Integers, Sequences, FiniteSets, TLC

\* ------------------------------------------------------------------ bounds
MaxPoints == 2          \* most features the data layer holds
DynamicThrottle == 2    \* the dynamicThrottle option, in ms
MaxTimers == 2          \* most timeouts the host keeps pending
MaxBurst == 2           \* events counted per burst
MaxCol == 3             \* columns and rows -MaxCol..MaxCol of a round trip
MaxValues == 4          \* values of a field or of a bucket

\* ------------------------------------------------------- input enumerations
Null == <<>>
Some(v) == <<v>>

\* candidate features of the data layer: ground coordinate and properties
\* (A and B fall into one cell, F far from them; B and F have the same lat + lng)
Sites ==
  { [lat |-> -10, lng |-> 10, props |-> Some(1)],
    [lat |-> -14, lng |-> 13, props |-> Some(2)],
    [lat |-> -51, lng |-> 50, props |-> Some(3)] }

\* a point feature whose GeoJSON properties member is null, next to A
FeaturesWithoutProperties == { [lat |-> -12, lng |-> 12, props |-> Null] }

\* the paddings given to getBoundary
BoundaryPaddings == {-1, 0, 2, 3}

Zooms == {0, 1}
Pans == { <<0, 0>>, <<5, 0>> }
MapSize == <<100, 100>>
GridSizes == {20}
\* the cell sizes the discretisers are applied with on their own
ProbeCellSizes == {7, 12, 20}
\* the sizes the application assigns to layer.gridSize later
NewGridSizes == {30}
Paddings == {2}
GridTypes == {"square", "hexagon"}
MousePositions == { <<15, 15>> }
FieldLists == { <<"value">> }
VisualizationConfigs == { "glyph" }
\* options.aggregationConfig: left out (the default {}) or given with fields
AggregationConfigs == { [fields |-> Null], [fields |-> Some(<<"value">>)] }

\* ------------------------------------------------------------ JS arithmetic
Floor(a, b) == a \div b                      \* Math.floor(a / b), b > 0
Ceil(a, b) == -((-a) \div b)                 \* Math.ceil(a / b), b > 0
Abs(a) == IF a < 0 THEN -a ELSE a
Trunc(a, b) == IF a >= 0 THEN a \div b ELSE -((-a) \div b)   \* Math.trunc(a / b)
JsRem(a, b) == IF a >= 0 THEN a % b ELSE -((-a) % b)         \* a % b of JS
\* `<< 5` and `& 0xffffffff` wrap to 32 bits; every hash of the bounded data
\* layer is below 2^31 in magnitude, where the wrap leaves the value as it is
ToInt32(n) == IF n > 2147483647 THEN n - 2147483647 - 2147483647 - 2 ELSE n

MinOf(S) == CHOOSE y \in S : \A z \in S : y <= z
MaxOf(S) == CHOOSE y \in S : \A z \in S : y >= z

Range(s) == { s[i] : i \in 1..Len(s) }

\* largest n with n * n <= m
RECURSIVE IsqrtFrom(_, _)
IsqrtFrom(m, n) == IF (n + 1) * (n + 1) > m THEN n ELSE IsqrtFrom(m, n + 1)
Isqrt(m) == IsqrtFrom(m, 0)

\* ------------------------------------------------------------------- state
VARIABLES
  \* host map and data layer
  attached,            \* this._map is set (the layer is on the map)
  zoom,                \* map.getZoom()
  pan,                 \* pixel offset of the container origin
  points,              \* the features of geojsonLayer, in eachLayer order
  timers,              \* pending setTimeout callbacks: [id, left, e]
  subs,                \* handlers of this layer subscribed on the map
  \* options and public fields
  gridSize, padding, gridType, dynamicMode, aggregationConfig,
  discretizerSize,     \* cell size this._discretizers were built with
  dataSchema,          \* dataProcessor.dataSchema
  visualizationConfig,
  \* snapshot, index and caches
  gridData, tree,
  cachedBounds, cachedZoom, cachedGridSize, cachedPadding, cachedGridType,
  dataHash, cachedGridOriginX, cachedGridOriginY,
  cachedScreenData, cachedMousePos, dynamicUpdateTimer,
  \* observation of the run
  last,                \* what the latest operation did
  sinceEvent,          \* ms since the latest zoom/move/mousemove event
  unanswered,          \* such events since the latest timer ran or was cancelled
  keySnapshot,         \* snapshot built by the pass that recorded the key
  \* loaded data
  processedData,       \* this._processedData
  globalStats,         \* this._globalStats
  currentPadding,      \* closure of the hexagonal discretiser: the padding
  hexParamsPadding,    \* last given to getBoundary, and its parameter set
  \* environment of the index and of the pure functions
  searchThrows,        \* this._tree.search raises when it is called
  probe                \* the latest application of a pure function

hostVars == <<attached, zoom, pan, points, timers, subs>>
optionVars == <<gridSize, padding, gridType, dynamicMode, aggregationConfig,
                discretizerSize, dataSchema, visualizationConfig>>
keyVars == <<cachedBounds, cachedZoom, cachedGridSize, cachedPadding,
             cachedGridType, dataHash, cachedGridOriginX, cachedGridOriginY>>
dynVars == <<cachedScreenData, cachedMousePos, dynamicUpdateTimer>>
obsVars == <<last, sinceEvent, unanswered, keySnapshot>>
closureVars == <<currentPadding, hexParamsPadding>>
restVars == <<processedData, globalStats, searchThrows, probe, closureVars>>
vars == <<hostVars, optionVars, keyVars, dynVars, gridData, tree, obsVars,
          restVars>>

\* ---------------------------------------------------------------- host map
Scale(z) == 2 ^ z

\* map.latLngToContainerPoint / CoordinateTransformer.latLngToScreen
latLngToScreen(p) ==
  << p.lng * Scale(zoom) - pan[1], (0 - p.lat) * Scale(zoom) - pan[2] >>

\* CoordinateTransformer.screenToLatLng; the result is multiplied by 2^zoom
screenToLatLng(pt) ==
  [lat |-> 0 - (pt[2] + pan[2]), lng |-> pt[1] + pan[1]]

\* CoordinateTransformer.isPointVisible
isPointVisible(pt) ==
  /\ pt[1] >= 0 /\ pt[1] <= MapSize[1]
  /\ pt[2] >= 0 /\ pt[2] <= MapSize[2]

\* geojsonLayer.getBounds(): the bounding box of the features
getBounds ==
  [south |-> MinOf({ p.lat : p \in Range(points) }),
   north |-> MaxOf({ p.lat : p \in Range(points) }),
   west  |-> MinOf({ p.lng : p \in Range(points) }),
   east  |-> MaxOf({ p.lng : p \in Range(points) })]
getNorthWest(b) == [lat |-> b.north, lng |-> b.west]
getSouthEast(b) == [lat |-> b.south, lng |-> b.east]

\* CoordinateTransformer.boundsToScreen
boundsToScreen(b) ==
  [northWest |-> latLngToScreen(getNorthWest(b)),
   southEast |-> latLngToScreen(getSouthEast(b))]

\* L.latLngBounds over a set of (scaled) ground points
latLngBounds(S) ==
  [south |-> MinOf({ q.lat : q \in S }), north |-> MaxOf({ q.lat : q \in S }),
   west  |-> MinOf({ q.lng : q \in S }), east  |-> MaxOf({ q.lng : q \in S })]

\* rbush search: the entries whose point lies in the closed box; the box is
\* in ground coordinates multiplied by 2^zoom
treeSearch(t, b) ==
  SelectSeq(t, LAMBDA e :
     /\ b.west <= e.lng * Scale(zoom) /\ e.lng * Scale(zoom) <= b.east
     /\ b.south <= e.lat * Scale(zoom) /\ e.lat * Scale(zoom) <= b.north)

\* -------------------------------------------------------------- data hash
RECURSIVE hashFold(_, _, _)
hashFold(pts, i, hash) ==
  IF i > Len(pts) THEN hash
  ELSE hashFold(pts, i + 1,
                ToInt32(ToInt32(hash * 32) - hash + pts[i].lat + pts[i].lng))

\* _generateDataHash: hash + '_' + count
generateDataHash == Some(<< hashFold(points, 1, 0), Len(points) >>)

\* ------------------------------------------------------------ discretisers
\* Lengths that can be half pixels are kept doubled (suffix 2).

\* _getGridDiscretiser(cellSize)
gridGetColRow(cellSize, x, y) == << Trunc(x, cellSize), Trunc(y, cellSize) >>
gridGetXYCentre2(cellSize, col, row) ==
  << 2 * col * cellSize + cellSize, 2 * row * cellSize + cellSize >>
\* getColRow of the point (x2 / 2, y2 / 2): the quotients are those of the
\* doubled lengths
gridGetColRow2(cellSize, x2, y2) == gridGetColRow(2 * cellSize, x2, y2)
\* getBoundary(col, row, padding), doubled
gridGetBoundary2(cellSize, col, row, pad) ==
  LET adjCellSize == IF pad # 0 THEN cellSize - pad * 2 ELSE cellSize
      xy2 == gridGetXYCentre2(cellSize, col, row)
  IN << << xy2[1] - adjCellSize, xy2[2] - adjCellSize >>,
        << xy2[1] + adjCellSize, xy2[2] - adjCellSize >>,
        << xy2[1] + adjCellSize, xy2[2] + adjCellSize >>,
        << xy2[1] - adjCellSize, xy2[2] + adjCellSize >> >>

\* getHexParams(cellSize) of _getHexDiscretiser
hexParams(RADIUS, HEIGHT) ==
  [RADIUS |-> RADIUS, WIDTH |-> RADIUS * 2, HEIGHT |-> HEIGHT,
   SIDE2 |-> RADIUS * 3,
   CORNERS_DX2 |-> << RADIUS, RADIUS * 3, RADIUS * 4, RADIUS * 3, RADIUS, 0 >>,
   CORNERS_DY2 |-> << 0, 0, HEIGHT, HEIGHT * 2, HEIGHT * 2, HEIGHT >>,
   NUM_NEIGHBORS |-> 6]
\* the cell sizes getHexParams is called with: gridSize and gridSize - 2 * padding
HexCellSizes ==
  { g - 2 * p : g \in GridSizes \cup NewGridSizes,
                p \in Paddings \cup BoundaryPaddings }
    \cup ProbeCellSizes
\* getHexParams is pure: its results, one per cell size
hexParamsBySize ==
  [c \in HexCellSizes |->
     hexParams(Trunc(c * 13, 20),
               Isqrt(3 * Trunc(c * 13, 20) * Trunc(c * 13, 20)))]
getHexParams(cellSize) == hexParamsBySize[cellSize]

\* _getHexDiscretiser(cellSize).getColRow as it would be with Math.trunc in
\* place of Math.floor
hexGetColRowTruncating(cellSize, x2, y2) ==
  LET hp  == getHexParams(cellSize)
      ci  == Trunc(x2, hp.SIDE2)
      cx2 == x2 - hp.SIDE2 * ci
      ty2 == y2 - JsRem(ci, 2) * hp.HEIGHT
      cj  == Trunc(ty2, 2 * hp.HEIGHT)
      cy2 == ty2 - 2 * hp.HEIGHT * cj
  IN IF hp.HEIGHT * cx2 > Abs(hp.RADIUS * hp.HEIGHT - hp.RADIUS * cy2)
     THEN << ci, cj >>
     ELSE << ci - 1, cj + JsRem(ci, 2) - (IF cy2 < hp.HEIGHT THEN 1 ELSE 0) >>

\* _getHexDiscretiser(cellSize).getColRow of the point (x2 / 2, y2 / 2)
hexGetColRow2(cellSize, x2, y2) ==
  LET hp  == getHexParams(cellSize)
      ci  == Floor(x2, hp.SIDE2)
      cx2 == x2 - hp.SIDE2 * ci
      ty2 == y2 - JsRem(ci, 2) * hp.HEIGHT
      cj  == Floor(ty2, 2 * hp.HEIGHT)
      cy2 == ty2 - 2 * hp.HEIGHT * cj
  IN IF hp.HEIGHT * cx2 > Abs(hp.RADIUS * hp.HEIGHT - hp.RADIUS * cy2)
     THEN << ci, cj >>
     ELSE << ci - 1, cj + JsRem(ci, 2) - (IF cy2 < hp.HEIGHT THEN 1 ELSE 0) >>

\* _getHexDiscretiser(cellSize).getColRow of a whole-pixel point
hexGetColRow(cellSize, x, y) == hexGetColRow2(cellSize, 2 * x, 2 * y)

\* _getHexDiscretiser(cellSize).getXYCentre, doubled
hexGetXYCentre2(cellSize, col, row) ==
  LET hp == getHexParams(cellSize)
  IN << col * hp.SIDE2 + 2 * hp.RADIUS,
        hp.HEIGHT * (2 * row + JsRem(col, 2)) + hp.HEIGHT >>

\* _getHexDiscretiser(cellSize).getBoundary: six rounded corners
hexGetBoundary(cellSize, col, row, pad) ==
  LET hp  == getHexParams(cellSize)
      hpb == IF pad # 0 THEN getHexParams(cellSize - pad * 2) ELSE hp
      x6  == 3 * col * hp.SIDE2
      y6  == 3 * hp.HEIGHT * (2 * row + JsRem(col, 2))
  IN [k \in 1..hpb.NUM_NEIGHBORS |->
        << Floor(x6 + 8 * pad + 3 * hpb.CORNERS_DX2[k] + 3, 6),
           Floor(y6 + 8 * pad + 3 * hpb.CORNERS_DY2[k] + 3, 6) >>]

\* the corners getBoundary pushes for (col, row) with the cell positions of
\* hp and the corner offsets of hpb
hexBoundaryWith(hp, hpb, col, row, pad) ==
  [k \in 1..hpb.NUM_NEIGHBORS |->
     << Floor(3 * col * hp.SIDE2 + 8 * pad + 3 * hpb.CORNERS_DX2[k] + 3, 6),
        Floor(3 * hp.HEIGHT * (2 * row + JsRem(col, 2)) + 8 * pad
                + 3 * hpb.CORNERS_DY2[k] + 3, 6) >>]

\* the parameter set getBoundary reads its corners from: the padded set of
\* the closure for a padding that is not 0, hexParams otherwise
hexParamsForBoundary(hpp, cellSize, pad) ==
  IF pad # 0 THEN hpp ELSE Some(getHexParams(cellSize))

\* _getHexDiscretiser(cellSize).getBoundary(col, row, padding) entered with
\* the closure variables cp and hpp: the closure it leaves and its result,
\* a TypeError when the parameter set it reads is undefined
getBoundaryOn(cp, hpp, cellSize, col, row, pad) ==
  IF pad > 0 /\ cp # Some(pad)
  THEN [currentPadding |-> Some(pad),
        hexParamsPadding |-> Some(getHexParams(cellSize - pad * 2)),
        raised |-> FALSE,
        coords |-> hexBoundaryWith(getHexParams(cellSize),
                                   getHexParams(cellSize - pad * 2),
                                   col, row, pad)]
  ELSE [currentPadding |-> cp, hexParamsPadding |-> hpp,
        raised |-> hexParamsForBoundary(hpp, cellSize, pad) = Null,
        coords |-> IF hexParamsForBoundary(hpp, cellSize, pad) = Null
                   THEN << >>
                   ELSE hexBoundaryWith(getHexParams(cellSize),
                          hexParamsForBoundary(hpp, cellSize, pad)[1],
                          col, row, pad)]

\* this._discretizers[gridType], built once with the constructor's gridSize
discGetColRow(type, x, y) ==
  IF type = "square" THEN gridGetColRow(discretizerSize, x, y)
  ELSE hexGetColRow(discretizerSize, x, y)
discGetXYCentre2(type, col, row) ==
  IF type = "square" THEN gridGetXYCentre2(discretizerSize, col, row)
  ELSE hexGetXYCentre2(discretizerSize, col, row)

\* ------------------------------------------------------------- aggregation
\* aggregationConfig.fields is set and not empty
hasFields(cfg) == cfg.fields # Null /\ Len(cfg.fields[1]) > 0

\* the properties pushed for the features a query returned
propertiesOf(results) ==
  LET withProps == SelectSeq(results, LAMBDA f : f.props # Null)
  IN [i \in 1..Len(withProps) |-> withProps[i].props[1]]

\* _aggregateCellData merged into the cell by Object.assign: with fields
\* configured, DataProcessor.aggregateCellData returns count = number of
\* attribute records next to the per-field results
assignAggregated(cell) ==
  IF hasFields(aggregationConfig)
  THEN [cell EXCEPT !.count = Len(cell.attributes),
                    !.aggregated = IF Len(cell.attributes) = 0 THEN Null
                                   ELSE aggregationConfig.fields]
  ELSE cell

\* --------------------------------------------------------- static passes
\* the index the queries of a miss run against: rebuilt by _recalculateTree
\* when it is empty or the recorded data hash differs from the current one
treeForPass ==
  IF Len(tree) = 0 \/ dataHash # generateDataHash THEN points ELSE tree

\* the query of a cell inside try/catch: a search that raises is logged and
\* gives no results
guardedSearch(t, cellBounds) ==
  IF searchThrows THEN <<>> ELSE treeSearch(t, cellBounds)

\* the cell object of a static pass once its query has returned
cellWithResults(cell, results) ==
  assignAggregated([cell EXCEPT !.count = Len(results),
                                !.attributes = propertiesOf(results)])

\* _calculateSquareGridData: the cell at row i, column j
squareCell(rectSize, t, northWest, i, j) ==
  LET cellX == northWest[1] + j * (rectSize + padding)
      cellY == northWest[2] + i * (rectSize + padding)
      topLeft == screenToLatLng(<< cellX, cellY >>)
      bottomRight == screenToLatLng(<< cellX + rectSize + padding,
                                       cellY + rectSize + padding >>)
      cellBounds == latLngBounds({ topLeft, bottomRight })
  IN cellWithResults(
       [count |-> 0, x |-> cellX, y |-> cellY, bounds |-> cellBounds,
        attributes |-> <<>>, aggregated |-> Null],
       guardedSearch(t, cellBounds))

\* cellData.getBoundary(padding) of a cell of _calculateSquareGridData, in
\* the order the corners are listed, doubled
squareCellGetBoundary2(rectSize, cell, pad) ==
  LET adjCellSize == IF pad # 0 THEN rectSize - pad * 2 ELSE rectSize
  IN << << 2 * cell.x + adjCellSize, 2 * cell.y + adjCellSize >>,
        << 2 * cell.x + adjCellSize, 2 * cell.y - adjCellSize >>,
        << 2 * cell.x - adjCellSize, 2 * cell.y - adjCellSize >>,
        << 2 * cell.x - adjCellSize, 2 * cell.y + adjCellSize >> >>
\* cellData.getXCentre() and getYCentre() of such a cell, doubled
squareCellGetCentre2(rectSize, cell) ==
  << 2 * cell.x + rectSize, 2 * cell.y + rectSize >>

\* the loops of _calculateSquareGridData: rows outermost, cells with data kept
squareCells(rectSize, t, northWest, cols, rows) ==
  SelectSeq([k \in 1..(rows * cols) |->
               squareCell(rectSize, t, northWest,
                          (k - 1) \div cols, (k - 1) % cols)],
            LAMBDA c : c.count > 0)

\* _calculateSquareGridData with rectSize = this.gridSize: cols and rows
\* from the data bounds
calculateSquareGridData(rectSize, t) ==
  LET sb == boundsToScreen(getBounds)
  IN squareCells(rectSize, t, sb.northWest,
                 Ceil(sb.southEast[1] - sb.northWest[1], rectSize),
                 Ceil(sb.southEast[2] - sb.northWest[2], rectSize))

\* _calculateHexagonGridData: the cell (col, row)
hexagonCell(t, col, row) ==
  LET center2 == hexGetXYCentre2(discretizerSize, col, row)
      boundary == hexGetBoundary(discretizerSize, col, row, padding)
      cellBounds == latLngBounds({ screenToLatLng(boundary[k]) : k \in 1..6 })
  IN cellWithResults(
       [count |-> 0, col |-> col, row |-> row,
        x |-> center2[1], y |-> center2[2], bounds |-> cellBounds,
        attributes |-> <<>>, aggregated |-> Null],
       guardedSearch(t, cellBounds))

\* the loops of _calculateHexagonGridData: columns outermost, from firstCol
\* and firstRow, cells with data kept
hexagonCells(t, firstCol, firstRow, ncols, nrows) ==
  SelectSeq([k \in 1..(ncols * nrows) |->
               hexagonCell(t, firstCol + ((k - 1) \div nrows),
                              firstRow + ((k - 1) % nrows))],
            LAMBDA c : c.count > 0)

\* _calculateHexagonGridData: one ring around the cells of the two corners
calculateHexagonGridData(t) ==
  LET sb == boundsToScreen(getBounds)
      start == hexGetColRow(discretizerSize, sb.northWest[1], sb.northWest[2])
      end == hexGetColRow(discretizerSize, sb.southEast[1], sb.southEast[2])
  IN hexagonCells(t, start[1] - 1, start[2] - 1,
                  IF end[1] + 1 >= start[1] - 1 THEN end[1] - start[1] + 3 ELSE 0,
                  IF end[2] + 1 >= start[2] - 1 THEN end[2] - start[2] + 3 ELSE 0)

\* the number of cells the loops of a static pass query
cellsQueried ==
  LET sb == boundsToScreen(getBounds)
      start == hexGetColRow(discretizerSize, sb.northWest[1], sb.northWest[2])
      end == hexGetColRow(discretizerSize, sb.southEast[1], sb.southEast[2])
  IN IF gridType = "square"
     THEN MaxOf({0, Ceil(sb.southEast[1] - sb.northWest[1], gridSize)})
            * MaxOf({0, Ceil(sb.southEast[2] - sb.northWest[2], gridSize)})
     ELSE MaxOf({0, end[1] - start[1] + 3}) * MaxOf({0, end[2] - start[2] + 3})

\* ------------------------------------------------------------ dynamic pass
\* _processScreenData: the visible features with their screen points
processScreenData ==
  LET visible == SelectSeq(points, LAMBDA p : isPointVisible(latLngToScreen(p)))
  IN [i \in 1..Len(visible) |->
        [screenPoint |-> latLngToScreen(visible[i]),
         properties |-> visible[i].props]]

\* the spatial unit created on the first hit of a cell
newSpatialUnit(type, col, row) ==
  LET center2 == discGetXYCentre2(type, col, row)
  IN [col |-> col, row |-> row, x |-> center2[1], y |-> center2[2],
      count |-> 0, attributes |-> <<>>, aggregated |-> Null]

\* the units of the loop of _calculateDynamicGridData once the cell of each
\* datum is known: one unit per cell hit, in the order of the first hits
\* (Object.values of spatialUnitsLookup), each counting its data and holding
\* their properties in data order
unitsOfCells(type, screenData, cells) ==
  LET idx == [i \in 1..Len(screenData) |-> i]
      firsts == SelectSeq(idx, LAMBDA i : \A j \in 1..(i - 1) : cells[j] # cells[i])
      members(f) == SelectSeq(idx, LAMBDA i : cells[i] = cells[f])
      unit(cr, ms) ==
        [newSpatialUnit(type, cr[1], cr[2]) EXCEPT
           !.count = Len(ms),
           !.attributes = [n \in 1..Len(ms) |-> screenData[ms[n]].properties]]
  IN [k \in 1..Len(firsts) |-> unit(cells[firsts[k]], members(firsts[k]))]

\* the loop of _calculateDynamicGridData over screenData
spatialUnitsLookup(type, screenData) ==
  unitsOfCells(type, screenData,
     [i \in 1..Len(screenData) |->
        discGetColRow(type, screenData[i].screenPoint[1],
                            screenData[i].screenPoint[2])])

\* `this.aggregationConfig.fields.length` of the aggregation step raises a
\* TypeError when the configuration has no fields property
aggregationStepRaises(cfg, units) == Len(units) > 0 /\ cfg.fields = Null

\* the end of _calculateDynamicGridData: the aggregation step and the
\* assignment of the snapshot, which a raise leaves at the [] of its start
dynamicOutcome(screenData, units) ==
  [cachedScreenData |-> Some(screenData),
   raised |-> aggregationStepRaises(aggregationConfig, units),
   gridData |-> IF aggregationStepRaises(aggregationConfig, units) THEN <<>>
                ELSE [k \in 1..Len(units) |-> assignAggregated(units[k])]]

\* _calculateDynamicGridData over the screen points `screenData`
dynamicGridDataOf(screenData) ==
  dynamicOutcome(screenData, spatialUnitsLookup(gridType, screenData))

\* _calculateDynamicGridData(mousePos): the new snapshot, the screen-point
\* cache and whether the call raised
calculateDynamicGridData(cached) ==
  dynamicGridDataOf(IF cached # Null THEN cached[1] ELSE processScreenData)

\* --------------------------------------------------------------- the cache
\* _needsRecalculation(bounds)
needsRecalculation ==
  LET currentZoom == zoom
      currentDataHash == generateDataHash
      northWest == latLngToScreen(getNorthWest(getBounds))
      gridOriginX == Floor(northWest[1], gridSize) * gridSize
      gridOriginY == Floor(northWest[2], gridSize) * gridSize
      gridOriginChanged == \/ cachedGridOriginX # Some(gridOriginX)
                           \/ cachedGridOriginY # Some(gridOriginY)
      zoomChanged == cachedZoom # Some(currentZoom)
      gridSizeChanged == cachedGridSize # Some(gridSize)
      paddingChanged == cachedPadding # Some(padding)
      gridTypeChanged == cachedGridType # Some(gridType)
      dataChanged == dataHash # currentDataHash
  IN \/ gridOriginChanged \/ zoomChanged \/ gridSizeChanged
     \/ paddingChanged \/ gridTypeChanged \/ dataChanged

\* _updateCache(bounds) as it would be if it did not record the zoom
updateCacheWithoutZoom ==
  LET northWest == latLngToScreen(getNorthWest(getBounds))
  IN /\ cachedGridOriginX' = Some(Floor(northWest[1], gridSize) * gridSize)
     /\ cachedGridOriginY' = Some(Floor(northWest[2], gridSize) * gridSize)
     /\ cachedBounds' = Some(getBounds)
     /\ cachedZoom' = Null
     /\ cachedGridSize' = Some(gridSize)
     /\ cachedPadding' = Some(padding)
     /\ cachedGridType' = Some(gridType)
     /\ dataHash' = generateDataHash

\* _updateCache(bounds)
updateCache ==
  LET northWest == latLngToScreen(getNorthWest(getBounds))
  IN /\ cachedGridOriginX' = Some(Floor(northWest[1], gridSize) * gridSize)
     /\ cachedGridOriginY' = Some(Floor(northWest[2], gridSize) * gridSize)
     /\ cachedBounds' = Some(getBounds)
     /\ cachedZoom' = Some(zoom)
     /\ cachedGridSize' = Some(gridSize)
     /\ cachedPadding' = Some(padding)
     /\ cachedGridType' = Some(gridType)
     /\ dataHash' = generateDataHash

\* invalidateCache as it would be if it kept the data hash
invalidatedKeepingHash ==
  /\ cachedBounds' = Null /\ cachedZoom' = Null /\ cachedGridSize' = Null
  /\ cachedPadding' = Null /\ cachedGridType' = Null /\ dataHash' = dataHash
  /\ cachedGridOriginX' = Null /\ cachedGridOriginY' = Null
  /\ cachedScreenData' = Null /\ cachedMousePos' = Null

\* the fields invalidateCache resets
invalidated ==
  /\ cachedBounds' = Null /\ cachedZoom' = Null /\ cachedGridSize' = Null
  /\ cachedPadding' = Null /\ cachedGridType' = Null /\ dataHash' = Null
  /\ cachedGridOriginX' = Null /\ cachedGridOriginY' = Null
  /\ cachedScreenData' = Null /\ cachedMousePos' = Null

\* what an operation reports about itself
\* the latest operation ran calculateGridData in static mode
IsPass(l) == l.op = "calculateGridData" /\ l.branch \in {"hit", "miss"}
keyIsNull ==
  /\ cachedBounds = Null /\ cachedZoom = Null /\ cachedGridSize = Null
  /\ cachedPadding = Null /\ cachedGridType = Null /\ dataHash = Null
  /\ cachedGridOriginX = Null /\ cachedGridOriginY = Null
Did(op, branch, raised, recomputes) ==
  [op |-> op, branch |-> branch, raised |-> raised,
   recomputes |-> recomputes,
   prevPass |-> branch \in {"hit", "miss"} /\ IsPass(last),
   keyWasNull |-> branch \in {"hit", "miss"} /\ keyIsNull,
   burst |-> IF op \in {"timer", "onRemove"} THEN unanswered ELSE 0,
   waited |-> IF op \in {"timer", "zoomend", "moveend"} THEN sinceEvent ELSE 0]

\* the branch calculateGridData(bounds) would take without its return for
\* dynamic mode
passBranchInEitherMode ==
  IF ~needsRecalculation THEN "hit" ELSE "miss"

\* the branch calculateGridData(bounds) takes
passBranch ==
  IF dynamicMode THEN "dynamic"
  ELSE IF ~needsRecalculation THEN "hit" ELSE "miss"

\* calculateGridData(bounds): the static pass
calculateGridData ==
  IF passBranch = "miss"
  THEN /\ tree' = treeForPass
       /\ gridData' = IF gridType = "square"
                      THEN calculateSquareGridData(gridSize, treeForPass)
                      ELSE calculateHexagonGridData(treeForPass)
       /\ updateCache
       /\ keySnapshot' = gridData'
  ELSE UNCHANGED <<gridData, tree, keyVars, keySnapshot>>

\* the snapshot a miss builds when it rebuilds the index from the data layer
gridDataFromPoints ==
  IF gridType = "square" THEN calculateSquareGridData(gridSize, points)
  ELSE calculateHexagonGridData(points)

\* ----------------------------------------------------------------- timers
DynamicHandlers == {"_onDynamicEvent", "_onMapChangeEnd"}
StaticHandlers == {"_redraw"}

\* a clearTimeout that cancels nothing
clearTimeoutOfNothing(ts, handle) == ts

\* clearTimeout(handle)
clearTimeout(ts, handle) ==
  IF handle = Null THEN ts ELSE { t \in ts : t.id # handle[1] }

\* the handle setTimeout returns: never one that is pending or still held
freshId(ts, handle) ==
  MinOf({ n \in 1..(MaxTimers + 2) :
            /\ \A t \in ts : t.id # n
            /\ handle # Some(n) })

\* _onDynamicEvent(e) as it would be without the clearTimeout
onDynamicEventWithoutClear(e) ==
  /\ Cardinality(timers) < MaxTimers
  /\ timers' = timers \cup { [id |-> freshId(timers, dynamicUpdateTimer),
                               left |-> DynamicThrottle, e |-> e] }
  /\ dynamicUpdateTimer' = Some(freshId(timers, dynamicUpdateTimer))
  /\ sinceEvent' = 0
  /\ unanswered' = IF unanswered < MaxBurst THEN unanswered + 1
                   ELSE unanswered

\* _onDynamicEvent(e): cancel the pending recompute and schedule a new one
onDynamicEvent(e) ==
  LET cleared == clearTimeout(timers, dynamicUpdateTimer)
      id == freshId(cleared, dynamicUpdateTimer)
  IN /\ Cardinality(cleared) < MaxTimers
     /\ timers' = cleared \cup { [id |-> id, left |-> DynamicThrottle, e |-> e] }
     /\ dynamicUpdateTimer' = Some(id)
     /\ sinceEvent' = 0
     /\ unanswered' = IF unanswered < MaxBurst THEN unanswered + 1
                      ELSE unanswered

\* an event of the map that _onDynamicEvent is subscribed to
dispatchDynamic(e) ==
  IF "_onDynamicEvent" \in subs THEN onDynamicEvent(e)
  ELSE UNCHANGED <<timers, dynamicUpdateTimer, sinceEvent, unanswered>>

\* the state a dynamic recompute with outcome r leaves behind
recomputed(op, r) ==
  /\ cachedScreenData' = r.cachedScreenData
  /\ gridData' = r.gridData
  /\ last' = Did(op, "dynamic", r.raised, 1)

\* _updateDynamicGrid(e), entered with the screen-point cache `cached`
updateDynamicGrid(op, e, cached) ==
  IF ~dynamicMode \/ ~attached
  THEN /\ cachedScreenData' = cached
       /\ UNCHANGED <<gridData, cachedMousePos>>
       /\ last' = Did(op, "none", FALSE, 0)
  ELSE /\ cachedMousePos' = IF e # Null THEN e ELSE cachedMousePos
       /\ recomputed(op, calculateDynamicGridData(cached))

\* --------------------------------------------------------- data processor
\* JavaScript values: <<"num", n>>, <<"str", s>>, <<"date", t>> (a Date
\* object with time value t), <<"nan">> and <<"null">>
Num(n) == << "num", n >>
Str(s) == << "str", s >>
DateOf(t) == << "date", t >>
NaN == << "nan" >>
JsNull == << "null" >>

\* the strings of the inputs; time values are days since 1970-01-01
Lexicon == { "", "7", "12", "2020-01-01", "2021-06-15",
             "low", "Low", "medium", "high", "other" }
\* Number(string): the numeric literals, and 0 for the empty string
numberOfString(s) ==
  CASE s = "" -> Num(0) [] s = "7" -> Num(7) [] s = "12" -> Num(12)
    [] OTHER -> NaN
\* new Date(string).getTime(): set for the ISO dates only
timeOfString(s) ==
  CASE s = "2020-01-01" -> Num(18262) [] s = "2021-06-15" -> Num(18793)
    [] OTHER -> NaN
\* String.prototype.toLowerCase
toLowerCase(s) == IF s = "Low" THEN "low" ELSE s
\* Number(value)
toNumber(v) ==
  CASE v[1] = "num" -> v
    [] v[1] = "str" -> numberOfString(v[2])
    [] v[1] = "date" -> Num(v[2])
    [] v[1] = "null" -> Num(0)
    [] OTHER -> NaN
\* String(value); a Date prints as none of the strings of the inputs
toString(v) ==
  CASE v[1] = "num" -> ToString(v[2])
    [] v[1] = "str" -> v[2]
    [] v[1] = "date" -> "Date(" \o ToString(v[2]) \o ")"
    [] v[1] = "null" -> "null"
    [] OTHER -> "NaN"

\* DataProcessor._parseValue(value): numeric, else date, else the string
parseValue(value) ==
  IF value = "" THEN JsNull
  ELSE IF numberOfString(value) # NaN THEN numberOfString(value)
  ELSE IF timeOfString(value) # NaN THEN DateOf(timeOfString(value)[2])
  ELSE Str(value)

\* DataProcessor._isDate(value)
isDate(value) ==
  \/ value[1] = "date"
  \/ value[1] = "str" /\ timeOfString(value[2]) # NaN

\* the fixed vocabularies of _isOrdinal
ordinalPatterns ==
  { {"low", "medium", "high"}, {"small", "medium", "large"},
    {"beginner", "intermediate", "advanced"},
    {"poor", "fair", "good", "excellent"},
    {"never", "rarely", "sometimes", "often", "always"} }

\* new Set(values).size: Date objects are distinct objects, other values
\* are the same when they are equal
uniqueCount(values) ==
  Cardinality({ i \in 1..Len(values) :
                  \/ values[i][1] = "date"
                  \/ \A j \in 1..(i - 1) : values[j] # values[i] })

\* DataProcessor._isOrdinal(values)
isOrdinal(values) ==
  /\ uniqueCount(values) > 2
  /\ \E pattern \in ordinalPatterns :
       \A p \in pattern :
         \E i \in 1..Len(values) : toLowerCase(toString(values[i])) = p

\* DataProcessor._detectDataType(values)
detectDataType(values) ==
  IF Len(values) = 0 THEN "unknown"
  ELSE IF /\ toNumber(values[1]) # NaN
          /\ \A i \in 1..Len(values) : toNumber(values[i]) # NaN
       THEN "numeric"
  ELSE IF isDate(values[1]) THEN "temporal"
  ELSE IF isOrdinal(values) THEN "ordinal"
  ELSE "nominal"

\* the non-null values of a field: filter(v => v !== null && v !== undefined)
nonNull(values) == SelectSeq(values, LAMBDA v : v # JsNull)

\* the + of the reducers: string concatenation as soon as one operand is a
\* string or a Date, numeric addition otherwise
jsPlus(a, b) ==
  IF a[1] \in {"str", "date"} \/ b[1] \in {"str", "date"}
  THEN Str(toString(a) \o toString(b))
  ELSE IF toNumber(a) = NaN \/ toNumber(b) = NaN THEN NaN
  ELSE Num(toNumber(a)[2] + toNumber(b)[2])

\* values.reduce((sum, val) => sum + val, 0)
RECURSIVE reduceSum(_, _)
reduceSum(values, sum) ==
  IF Len(values) = 0 THEN sum
  ELSE reduceSum(Tail(values), jsPlus(sum, Head(values)))

\* _applyAggregation, SUM
applySum(values) == reduceSum(values, Num(0))

\* _applyAggregation, MEAN: the total over values.length, kept as the pair
\* <<"ratio", total, length>>; a total that is text with a word in it
\* divides to NaN
applyMean(values) ==
  IF toNumber(applySum(values)) = NaN THEN NaN
  ELSE << "ratio", toNumber(applySum(values))[2], Len(values) >>

\* the property key a value is counted under: frequency[val]
keyOf(v) == toString(v)
\* the keys that are array indices: canonical non-negative integers
isIndexKey(v) ==
  \/ v[1] = "num" /\ v[2] >= 0
  \/ v[1] = "str" /\ v[2] # "" /\ numberOfString(v[2]) # NaN
\* a finite set of integers in ascending order
Ascending(S) ==
  [i \in 1..Cardinality(S) |->
     CHOOSE x \in S : Cardinality({ y \in S : y < x }) = i - 1]
\* Object.keys(frequency): index keys ascending, then the other keys in the
\* order they were first written
objectKeys(values) ==
  LET idx == [i \in 1..Len(values) |-> i]
      indices == Ascending({ toNumber(values[i])[2] :
                             i \in { k \in 1..Len(values) : isIndexKey(values[k]) } })
      firsts == SelectSeq(idx, LAMBDA i :
                  /\ ~isIndexKey(values[i])
                  /\ \A j \in 1..(i - 1) : keyOf(values[j]) # keyOf(values[i]))
  IN [i \in 1..Len(indices) |-> ToString(indices[i])]
     \o [i \in 1..Len(firsts) |-> keyOf(values[firsts[i]])]
\* frequency[key]
frequencyOf(values, key) ==
  Cardinality({ i \in 1..Len(values) : keyOf(values[i]) = key })

\* keys.reduce((a, b) => frequency[a] > frequency[b] ? a : b)
RECURSIVE reduceMode(_, _, _)
reduceMode(values, keys, a) ==
  IF Len(keys) = 0 THEN a
  ELSE reduceMode(values, Tail(keys),
                  IF frequencyOf(values, a) > frequencyOf(values, Head(keys))
                  THEN a ELSE Head(keys))

\* _applyAggregation, MODE: the winning key, a string
applyMode(values) ==
  reduceMode(values, Tail(objectKeys(values)), Head(objectKeys(values)))

\* ------------------------------------------------------------------- Init
\* the data layers a run starts from: distinct features, at least one
RECURSIVE SeqsOver(_, _)
SeqsOver(S, n) ==
  IF n = 0 THEN { <<>> }
  ELSE LET shorter == SeqsOver(S, n - 1)
       IN shorter \cup { Append(q, x) : q \in shorter, x \in S }
\* features are added west to east
Ordered(d) == \A i \in 1..(Len(d) - 1) : d[i].lng < d[i + 1].lng
DataSets == { d \in SeqsOver(Sites, MaxPoints) : Len(d) >= 1 /\ Ordered(d) }

\* no pure function has been applied yet
Idle == [fn |-> "none", args |-> << >>, result |-> << >>]

\* initialize(options): the layer
InitLayer ==
  /\ attached = FALSE /\ zoom = 0 /\ pan = <<0, 0>>
  /\ points \in DataSets
  /\ timers = {} /\ subs = {}
  /\ gridSize \in GridSizes /\ padding \in Paddings
  /\ gridType \in GridTypes /\ dynamicMode \in BOOLEAN
  /\ aggregationConfig \in AggregationConfigs
  /\ discretizerSize = gridSize
  /\ dataSchema = Null /\ visualizationConfig = Null
  /\ gridData = <<>> /\ tree = <<>>
  /\ cachedBounds = Null /\ cachedZoom = Null /\ cachedGridSize = Null
  /\ cachedPadding = Null /\ cachedGridType = Null /\ dataHash = Null
  /\ cachedGridOriginX = Null /\ cachedGridOriginY = Null
  /\ cachedScreenData = Null /\ cachedMousePos = Null
  /\ dynamicUpdateTimer = Null
  /\ last = [op |-> "initialize", branch |-> "none", raised |-> FALSE,
             recomputes |-> 0, prevPass |-> FALSE, keyWasNull |-> FALSE,
             burst |-> 0, waited |-> 0]
  /\ sinceEvent = DynamicThrottle + 1 /\ unanswered = 0
  /\ keySnapshot = <<>>
  /\ processedData = Null /\ globalStats = Null
  /\ currentPadding = Null /\ hexParamsPadding = Null
  /\ searchThrows = FALSE

\* initialize(options), no pure function applied on the side
Init == InitLayer /\ probe = Idle

\* ---------------------------------------------------------------- actions
\* onAdd(map)
OnAdd ==
  /\ ~attached
  /\ attached' = TRUE
  /\ subs' = subs \cup (IF dynamicMode THEN DynamicHandlers ELSE StaticHandlers)
                  \cup {"_onMouseMove"}
  /\ last' = Did("onAdd", "none", FALSE, 0)
  /\ UNCHANGED <<zoom, pan, points, timers, optionVars, restVars, keyVars, dynVars,
                 gridData, tree, sinceEvent, unanswered, keySnapshot>>

\* onRemove(map) as it would be if it reset the handle without clearTimeout
OnRemoveKeepingTimer ==
  /\ attached
  /\ attached' = FALSE
  /\ tree' = <<>>
  /\ gridData' = <<>>
  /\ cachedBounds' = Null
  /\ cachedScreenData' = Null
  /\ dynamicUpdateTimer' = Null
  /\ subs' = (subs \ (IF dynamicMode THEN DynamicHandlers ELSE StaticHandlers))
                  \ {"_onMouseMove"}
  /\ last' = Did("onRemove", "none", FALSE, 0)
  /\ UNCHANGED <<zoom, pan, points, timers, optionVars, restVars, cachedZoom,
                 cachedGridSize, cachedPadding, cachedGridType, dataHash,
                 cachedGridOriginX, cachedGridOriginY, cachedMousePos,
                 sinceEvent, unanswered, keySnapshot>>

\* onRemove(map)
OnRemove ==
  /\ attached
  /\ attached' = FALSE
  /\ tree' = <<>>
  /\ gridData' = <<>>
  /\ cachedBounds' = Null
  /\ cachedScreenData' = Null
  /\ timers' = clearTimeout(timers, dynamicUpdateTimer)
  /\ dynamicUpdateTimer' = Null
  /\ subs' = (subs \ (IF dynamicMode THEN DynamicHandlers ELSE StaticHandlers))
                  \ {"_onMouseMove"}
  /\ unanswered' = IF timers' = {} THEN 0 ELSE unanswered
  /\ last' = Did("onRemove", "none", FALSE, 0)
  /\ UNCHANGED <<zoom, pan, points, optionVars, restVars, cachedZoom, cachedGridSize,
                 cachedPadding, cachedGridType, dataHash, cachedGridOriginX,
                 cachedGridOriginY, cachedMousePos, sinceEvent, keySnapshot>>

\* onDrawLayer(info), called by the canvas layer while it is on the map
OnDrawLayer ==
  /\ attached
  /\ IF dynamicMode /\ cachedScreenData = Null
     THEN /\ recomputed("onDrawLayer",
                         calculateDynamicGridData(Some(processScreenData)))
          /\ UNCHANGED <<tree, keyVars, keySnapshot>>
     ELSE /\ calculateGridData
          /\ last' = Did("calculateGridData", passBranch, FALSE, 0)
          /\ UNCHANGED cachedScreenData
  /\ UNCHANGED <<hostVars, optionVars, restVars, cachedMousePos, dynamicUpdateTimer,
                 sinceEvent, unanswered>>

\* _redraw() called by the application
Redraw ==
  /\ attached
  /\ calculateGridData
  /\ last' = Did("calculateGridData", passBranch, FALSE, 0)
  /\ UNCHANGED <<hostVars, optionVars, restVars, dynVars, sinceEvent, unanswered>>

\* the map changes its zoom and fires "zoom"
MapZoom(z) ==
  /\ z # zoom
  /\ zoom' = z
  /\ dispatchDynamic(Null)
  /\ last' = Did("zoom", "none", FALSE, 0)
  /\ UNCHANGED <<attached, pan, points, subs, optionVars, restVars, keyVars,
                 cachedScreenData, cachedMousePos, gridData, tree, keySnapshot>>

\* the map is panned and fires "move"
MapMove(p) ==
  /\ p # pan
  /\ pan' = p
  /\ dispatchDynamic(Null)
  /\ last' = Did("move", "none", FALSE, 0)
  /\ UNCHANGED <<attached, zoom, points, subs, optionVars, restVars, keyVars,
                 cachedScreenData, cachedMousePos, gridData, tree, keySnapshot>>

\* the pointer moves over the map: "mousemove" with a container point
MouseMove(m) ==
  /\ dispatchDynamic(Some(m))
  /\ last' = Did("mousemove", "none", FALSE, 0)
  /\ UNCHANGED <<attached, zoom, pan, points, subs, optionVars, restVars, keyVars,
                 cachedScreenData, cachedMousePos, gridData, tree, keySnapshot>>

\* _onMapChangeEnd(e) as it would be if it kept the cached screen points
MapChangeEndKeepingScreenData(ev) ==
  /\ "_onMapChangeEnd" \in subs
  /\ dynamicMode
  /\ updateDynamicGrid(ev, Null, cachedScreenData)
  /\ UNCHANGED <<tree, keyVars, keySnapshot>>
  /\ UNCHANGED <<hostVars, optionVars, restVars, dynamicUpdateTimer, sinceEvent, unanswered>>

\* the view settles: "zoomend" or "moveend", handled by _redraw (static
\* subscription) and by _onMapChangeEnd (dynamic subscription)
MapChangeEnd(ev) ==
  /\ subs \cap {"_redraw", "_onMapChangeEnd"} # {}
  /\ IF dynamicMode
     THEN /\ UNCHANGED <<tree, keyVars, keySnapshot>>
          /\ IF "_onMapChangeEnd" \in subs
             THEN updateDynamicGrid(ev, Null, Null)
             ELSE /\ UNCHANGED <<gridData, cachedScreenData, cachedMousePos>>
                  /\ last' = Did(ev, "dynamic", ~attached, 0)
     ELSE /\ IF "_redraw" \in subs /\ attached
             THEN /\ calculateGridData
                  /\ last' = Did("calculateGridData", passBranch, FALSE, 0)
             ELSE /\ UNCHANGED <<gridData, tree, keyVars, keySnapshot>>
                  /\ last' = Did(ev, "none", "_redraw" \in subs, 0)
          /\ cachedScreenData' = IF "_onMapChangeEnd" \in subs THEN Null
                                 ELSE cachedScreenData
          /\ UNCHANGED cachedMousePos
  /\ UNCHANGED <<hostVars, optionVars, restVars, dynamicUpdateTimer, sinceEvent, unanswered>>

\* one millisecond passes; a timeout that is due runs first
Tick ==
  /\ \A t \in timers : t.left > 0
  /\ timers' = { [t EXCEPT !.left = @ - 1] : t \in timers }
  /\ sinceEvent' = IF sinceEvent <= DynamicThrottle THEN sinceEvent + 1
                   ELSE sinceEvent
  /\ sinceEvent' # sinceEvent \/ timers' # timers
  /\ UNCHANGED <<attached, zoom, pan, points, subs, optionVars, restVars, keyVars,
                 dynVars, gridData, tree, last, unanswered, keySnapshot>>

\* a due timeout runs its callback: _updateDynamicGrid(e)
TimerFire ==
  \E t \in timers :
    /\ t.left = 0
    /\ timers' = timers \ {t}
    /\ updateDynamicGrid("timer", t.e, cachedScreenData)
    /\ unanswered' = 0
    /\ UNCHANGED <<attached, zoom, pan, points, subs, optionVars, restVars, keyVars,
                   dynamicUpdateTimer, tree, sinceEvent, keySnapshot>>

\* invalidateCache() followed by _redraw(), run by the application after it
\* has assigned the grid size and type given: in dynamic mode
\* calculateGridData returns at once; in static mode the null key is a miss
\* that rebuilds the index and the cells and records the key
invalidateAndRedraw(size, type) ==
  /\ cachedScreenData' = Null /\ cachedMousePos' = Null
  /\ IF dynamicMode
     THEN /\ cachedBounds' = Null /\ cachedZoom' = Null
          /\ cachedGridSize' = Null /\ cachedPadding' = Null
          /\ cachedGridType' = Null /\ dataHash' = Null
          /\ cachedGridOriginX' = Null /\ cachedGridOriginY' = Null
          /\ UNCHANGED <<gridData, tree, keySnapshot>>
     ELSE /\ tree' = points
          /\ gridData' = IF type = "square"
                         THEN calculateSquareGridData(size, points)
                         ELSE calculateHexagonGridData(points)
          /\ cachedBounds' = Some(getBounds) /\ cachedZoom' = Some(zoom)
          /\ cachedGridSize' = Some(size) /\ cachedPadding' = Some(padding)
          /\ cachedGridType' = Some(type) /\ dataHash' = generateDataHash
          /\ cachedGridOriginX' =
               Some(Floor(latLngToScreen(getNorthWest(getBounds))[1], size) * size)
          /\ cachedGridOriginY' =
               Some(Floor(latLngToScreen(getNorthWest(getBounds))[2], size) * size)
          /\ keySnapshot' = gridData'

\* the application changes the grid size of an attached layer:
\* layer.gridSize = g; layer.invalidateCache(); layer._redraw()
SetGridSize(g) ==
  /\ attached
  /\ g # gridSize
  /\ gridSize' = g
  /\ UNCHANGED <<hostVars, padding, gridType, dynamicMode, aggregationConfig,
                 discretizerSize, dataSchema, restVars, visualizationConfig,
                 dynamicUpdateTimer, sinceEvent, unanswered>>
  /\ invalidateAndRedraw(g, gridType)
  /\ last' = Did("setGridSize", "none", FALSE, 0)

\* the application changes the grid type of an attached layer:
\* layer.gridType = g; layer.invalidateCache(); layer._redraw()
SetGridType(g) ==
  /\ attached
  /\ g # gridType
  /\ gridType' = g
  /\ UNCHANGED <<hostVars, gridSize, padding, dynamicMode, aggregationConfig,
                 discretizerSize, dataSchema, restVars, visualizationConfig,
                 dynamicUpdateTimer, sinceEvent, unanswered>>
  /\ invalidateAndRedraw(gridSize, g)
  /\ last' = Did("setGridType", "none", FALSE, 0)

\* the index starts to raise on search, or stops raising
IndexFault(b) ==
  /\ b # searchThrows
  /\ searchThrows' = b
  /\ last' = Did("indexFault", "none", FALSE, 0)
  /\ UNCHANGED <<hostVars, optionVars, keyVars, dynVars, gridData, tree,
                 sinceEvent, unanswered, keySnapshot, processedData,
                 globalStats, probe, closureVars>>

\* geojsonLayer.addLayer(feature)
AddLayer(f) ==
  /\ Len(points) < MaxPoints
  /\ Ordered(Append(points, f))
  /\ points' = Append(points, f)
  /\ last' = Did("addLayer", "none", FALSE, 0)
  /\ UNCHANGED <<attached, zoom, pan, timers, subs, optionVars, restVars, keyVars,
                 dynVars, gridData, tree, sinceEvent, unanswered, keySnapshot>>

\* geojsonLayer.removeLayer(feature); the data layer keeps one feature
RemoveLayer(i) ==
  /\ Len(points) > 1
  /\ i \in 1..Len(points)
  /\ points' = [k \in 1..(Len(points) - 1) |->
                  IF k < i THEN points[k] ELSE points[k + 1]]
  /\ last' = Did("removeLayer", "none", FALSE, 0)
  /\ UNCHANGED <<attached, zoom, pan, timers, subs, optionVars, restVars, keyVars,
                 dynVars, gridData, tree, sinceEvent, unanswered, keySnapshot>>

\* the application assigns the public field: layer.dynamicMode = b
SetDynamicMode(b) ==
  /\ b # dynamicMode
  /\ dynamicMode' = b
  /\ last' = Did("setDynamicMode", "none", FALSE, 0)
  /\ UNCHANGED <<hostVars, gridSize, padding, gridType, aggregationConfig,
                 discretizerSize, dataSchema, visualizationConfig, restVars,
                 keyVars, dynVars, gridData, tree, sinceEvent, unanswered,
                 keySnapshot>>

\* invalidateCache()
InvalidateCache ==
  /\ invalidated
  /\ last' = Did("invalidateCache", "none", FALSE, 0)
  /\ UNCHANGED <<hostVars, optionVars, restVars, dynamicUpdateTimer, gridData, tree,
                 sinceEvent, unanswered, keySnapshot>>

\* invalidateDynamicCache()
InvalidateDynamicCache ==
  /\ cachedScreenData' = Null
  /\ cachedMousePos' = Null
  /\ last' = Did("invalidateDynamicCache", "none", FALSE, 0)
  /\ UNCHANGED <<hostVars, optionVars, restVars, keyVars, dynamicUpdateTimer, gridData,
                 tree, sinceEvent, unanswered, keySnapshot>>

\* the sources given to loadData, each with the cells of its one field
\* "value": CSV text, a FeatureCollection, an array of rows, and three
\* sources of no recognised shape (a plain object, a number, null)
SupportedShapes == { "string", "FeatureCollection", "array" }
ArraySource == [shape |-> "array", cells |-> << Num(1), Num(3) >>]
Sources ==
  { ArraySource,
    [shape |-> "array", cells |-> << >>],
    [shape |-> "string", cells |-> << Str("7"), Str("") >>],
    [shape |-> "FeatureCollection", cells |-> << Str("low") >>],
    [shape |-> "object", cells |-> << Num(1) >>],
    [shape |-> "number", cells |-> << >>],
    [shape |-> "null", cells |-> << >>] }

\* DataProcessor.loadData: the rows of _loadCSV, _loadGeoJSON and _loadArray
loadedRows(src) ==
  IF src.shape = "string"
  THEN [i \in 1..Len(src.cells) |-> parseValue(src.cells[i][2])]
  ELSE src.cells

\* DataProcessor._detectSchema(data)
detectSchema(rows) ==
  IF Len(rows) = 0 THEN Null
  ELSE Some([field |-> "value", type |-> detectDataType(nonNull(rows))])

\* _calculateGlobalStats(): min, max, total and count of a numeric field
calculateGlobalStats(rows, schema) ==
  IF schema = Null THEN Null
  ELSE IF schema[1].type = "numeric" /\ Len(nonNull(rows)) > 0
  THEN LET nums == { toNumber(v)[2] : v \in Range(nonNull(rows)) }
       IN Some(<< MinOf(nums), MaxOf(nums), applySum(nonNull(rows)),
                  Len(nonNull(rows)) >>)
  ELSE Some(<< >>)

\* loadData(data, options) as it would be if it invalidated the cache before
\* the data processor has taken the source
LoadDataInvalidatingFirst(src) ==
  /\ invalidated
  /\ IF src.shape \in SupportedShapes
     THEN /\ processedData' = Some(loadedRows(src))
          /\ dataSchema' = detectSchema(loadedRows(src))
          /\ globalStats' = calculateGlobalStats(loadedRows(src),
                                                 detectSchema(loadedRows(src)))
          /\ last' = Did("loadData", "none", FALSE, 0)
     ELSE /\ UNCHANGED <<processedData, dataSchema, globalStats>>
          /\ last' = Did("loadData", "none", TRUE, 0)
  /\ UNCHANGED <<hostVars, gridSize, padding, gridType, dynamicMode,
                 aggregationConfig, discretizerSize, visualizationConfig,
                 dynamicUpdateTimer, gridData, tree, sinceEvent, unanswered,
                 keySnapshot, searchThrows, probe, closureVars>>

\* loadData(data, options): the data processor throws on a source of no
\* recognised shape and the error is thrown again to the caller; otherwise
\* the step that follows the await takes rows, schema and statistics and
\* invalidates the cache
LoadData(src) ==
  /\ IF src.shape \in SupportedShapes
     THEN /\ processedData' = Some(loadedRows(src))
          /\ dataSchema' = detectSchema(loadedRows(src))
          /\ globalStats' = calculateGlobalStats(loadedRows(src),
                                                 detectSchema(loadedRows(src)))
          /\ invalidated
          /\ last' = Did("loadData", "none", FALSE, 0)
     ELSE /\ UNCHANGED <<processedData, dataSchema, globalStats, keyVars,
                         cachedScreenData, cachedMousePos>>
          /\ last' = Did("loadData", "none", TRUE, 0)
  /\ UNCHANGED <<hostVars, gridSize, padding, gridType, dynamicMode,
                 aggregationConfig, discretizerSize, visualizationConfig,
                 dynamicUpdateTimer, gridData, tree, sinceEvent, unanswered,
                 keySnapshot, searchThrows, probe, closureVars>>

\* DataProcessor.createAggregationConfig(fields)
createAggregationConfig(fields) ==
  IF dataSchema = Null THEN [fields |-> Null] ELSE [fields |-> Some(fields)]

\* setSelectedFields(fields)
SetSelectedFields(fields) ==
  /\ aggregationConfig' = createAggregationConfig(fields)
  /\ invalidated
  /\ last' = Did("setSelectedFields", "none", FALSE, 0)
  /\ UNCHANGED <<hostVars, gridSize, padding, gridType, dynamicMode,
                 discretizerSize, dataSchema, restVars, visualizationConfig,
                 dynamicUpdateTimer, gridData, tree, sinceEvent, unanswered,
                 keySnapshot>>

\* setVisualizationConfig(config) as it would be without invalidateCache
SetVisualizationConfigOnly(c) ==
  /\ visualizationConfig' = Some(c)
  /\ last' = Did("setVisualizationConfig", "none", FALSE, 0)
  /\ UNCHANGED <<hostVars, gridSize, padding, gridType, dynamicMode,
                 aggregationConfig, discretizerSize, dataSchema, restVars, keyVars,
                 dynVars, gridData, tree, sinceEvent, unanswered, keySnapshot>>

\* setVisualizationConfig(config)
SetVisualizationConfig(c) ==
  /\ visualizationConfig' = Some(c)
  /\ invalidated
  /\ last' = Did("setVisualizationConfig", "none", FALSE, 0)
  /\ UNCHANGED <<hostVars, gridSize, padding, gridType, dynamicMode,
                 aggregationConfig, discretizerSize, dataSchema, restVars,
                 dynamicUpdateTimer, gridData, tree, sinceEvent, unanswered,
                 keySnapshot>>

\* getColRow applied to the centre getXYCentre gives for (col, row), for
\* the square discretiser of cell size s
GridRoundTrip(s, col, row) ==
  /\ probe' = [fn |-> "gridRoundTrip", args |-> << s, col, row >>,
               result |-> gridGetColRow2(s, gridGetXYCentre2(s, col, row)[1],
                                            gridGetXYCentre2(s, col, row)[2])]
  /\ UNCHANGED <<hostVars, optionVars, keyVars, dynVars, gridData, tree,
                 obsVars, processedData, globalStats, searchThrows, closureVars>>

\* the same for the hexagonal discretiser of cell size s
HexRoundTrip(s, col, row) ==
  /\ probe' = [fn |-> "hexRoundTrip", args |-> << s, col, row >>,
               result |-> hexGetColRow2(s, hexGetXYCentre2(s, col, row)[1],
                                           hexGetXYCentre2(s, col, row)[2])]
  /\ UNCHANGED <<hostVars, optionVars, keyVars, dynVars, gridData, tree,
                 obsVars, processedData, globalStats, searchThrows, closureVars>>

\* getBoundary(col, row, padding) called on the hexagonal discretiser of the
\* layer
GetBoundary(col, row, pad) ==
  /\ currentPadding' = getBoundaryOn(currentPadding, hexParamsPadding,
                           discretizerSize, col, row, pad).currentPadding
  /\ hexParamsPadding' = getBoundaryOn(currentPadding, hexParamsPadding,
                             discretizerSize, col, row, pad).hexParamsPadding
  /\ probe' = [fn |-> "getBoundary", args |-> << col, row, pad >>,
               result |-> << getBoundaryOn(currentPadding, hexParamsPadding,
                                discretizerSize, col, row, pad).raised,
                             getBoundaryOn(currentPadding, hexParamsPadding,
                                discretizerSize, col, row, pad).coords >>]
  /\ UNCHANGED <<hostVars, optionVars, keyVars, dynVars, gridData, tree,
                 obsVars, processedData, globalStats, searchThrows>>

\* the non-null values of a text field, of a bucket and the cell texts of a
\* CSV column
WordValues == { Str(w) : w \in {"low", "Low", "medium", "high", "other"} }
BucketValues == { Num(1), Num(2), Str("low"), Str("high") }
CsvTokens == { Str(t) : t \in {"", "7", "2020-01-01", "2021-06-15", "low"} }
\* a field or bucket of one to MaxValues values of S
IsField(values, S) ==
  /\ Len(values) \in 1..MaxValues
  /\ \A i \in 1..Len(values) : values[i] \in S
Fields(S) == { f \in SeqsOver(S, MaxValues) : Len(f) >= 1 }
\* a field or bucket given and nothing applied to it yet
Given(values) == [fn |-> "none", args |-> values, result |-> << >>]

\* _detectSchema types the given field of an array or FeatureCollection
\* source
DetectDataType ==
  /\ probe.fn = "none" /\ IsField(probe.args, WordValues \cup BucketValues)
  /\ probe' = [probe EXCEPT !.fn = "detectDataType",
                            !.result = detectDataType(nonNull(probe.args))]
  /\ UNCHANGED <<hostVars, optionVars, keyVars, dynVars, gridData, tree,
                 obsVars, processedData, globalStats, searchThrows, closureVars>>

\* _loadCSV parses the given cells of a column, _detectSchema types the field
LoadCsvColumn ==
  /\ probe.fn = "none" /\ IsField(probe.args, CsvTokens)
  /\ probe' = [probe EXCEPT
                 !.fn = "loadCSV",
                 !.result = detectDataType(nonNull(
                    [i \in 1..Len(probe.args) |-> parseValue(probe.args[i][2])]))]
  /\ UNCHANGED <<hostVars, optionVars, keyVars, dynVars, gridData, tree,
                 obsVars, processedData, globalStats, searchThrows, closureVars>>

\* aggregateCellData applies an aggregation to the given non-null values of
\* a field in a bucket
ApplyAggregation(aggregationType) ==
  /\ probe.fn = "none" /\ IsField(probe.args, BucketValues)
  /\ probe' = [probe EXCEPT
                 !.fn = aggregationType,
                 !.result = CASE aggregationType = "sum" -> applySum(probe.args)
                              [] aggregationType = "mean" -> applyMean(probe.args)
                              [] aggregationType = "mode" ->
                                   Str(applyMode(probe.args))]
  /\ UNCHANGED <<hostVars, optionVars, keyVars, dynVars, gridData, tree,
                 obsVars, processedData, globalStats, searchThrows, closureVars>>

\* a layer created in static mode
InitStatic == Init /\ ~dynamicMode
NextStatic ==
  \/ OnAdd
  \/ OnRemove
  \/ OnDrawLayer
  \/ Redraw
  \/ \E z \in Zooms : MapZoom(z)
  \/ \E p \in Pans : MapMove(p)
  \/ \E ev \in {"zoomend", "moveend"} : MapChangeEnd(ev)
  \/ \E f \in Sites : AddLayer(f)
  \/ \E i \in 1..MaxPoints : RemoveLayer(i)
  \/ InvalidateCache
SpecStatic == InitStatic /\ [][NextStatic]_vars

\* a layer created in dynamic mode
InitDynamic == Init /\ dynamicMode /\ Len(points) = MaxPoints
NextDynamic ==
  \/ OnAdd
  \/ OnRemove
  \/ OnDrawLayer
  \/ \E z \in Zooms : MapZoom(z)
  \/ \E p \in Pans : MapMove(p)
  \/ \E m \in MousePositions : MouseMove(m)
  \/ \E ev \in {"zoomend", "moveend"} : MapChangeEnd(ev)
  \/ Tick
  \/ TimerFire
  \/ InvalidateDynamicCache
SpecDynamic == InitDynamic /\ [][NextDynamic]_vars

\* a layer of either mode under the events of the map, the draw passes and
\* the throttled recomputes
InitModes == Init /\ Len(points) = MaxPoints
NextModes ==
  \/ OnAdd
  \/ OnRemove
  \/ OnDrawLayer
  \/ Redraw
  \/ \E z \in Zooms : MapZoom(z)
  \/ \E p \in Pans : MapMove(p)
  \/ \E m \in MousePositions : MouseMove(m)
  \/ \E ev \in {"zoomend", "moveend"} : MapChangeEnd(ev)
  \/ Tick
  \/ TimerFire
SpecModes == InitModes /\ [][NextModes]_vars

\* a layer added to and removed from the map by an application that also
\* assigns its dynamicMode field
InitRemount == Init /\ Len(points) = 1
NextRemount ==
  \/ OnAdd
  \/ OnRemove
  \/ OnDrawLayer
  \/ \E b \in BOOLEAN : SetDynamicMode(b)
  \/ \E ev \in {"zoomend", "moveend"} : MapChangeEnd(ev)
SpecRemount == InitRemount /\ [][NextRemount]_vars

\* a dynamic layer on a running event loop: time keeps passing while no
\* timeout is due, and a due timeout runs its callback
InitBurst == Init /\ dynamicMode /\ Len(points) = 1
NextBurst ==
  \/ OnAdd
  \/ OnDrawLayer
  \/ \E z \in Zooms : MapZoom(z)
  \/ \E m \in MousePositions : MouseMove(m)
  \/ Tick
  \/ TimerFire
SpecBurst ==
  InitBurst /\ [][NextBurst]_vars /\ WF_vars(Tick) /\ WF_vars(TimerFire)

\* a layer of either mode, created with the default aggregationConfig over
\* one feature, whose application loads data, selects fields, configures the
\* glyphs and invalidates the cache
InitCache == Init /\ Len(points) = 1 /\ aggregationConfig.fields = Null
NextCache ==
  \/ OnAdd
  \/ OnDrawLayer
  \/ Redraw
  \/ \E z \in Zooms : MapZoom(z)
  \/ \E m \in MousePositions : MouseMove(m)
  \/ Tick
  \/ TimerFire
  \/ \E f \in Sites : AddLayer(f)
  \/ InvalidateCache
  \/ LoadData(ArraySource)
  \/ \E fields \in FieldLists : SetSelectedFields(fields)
  \/ \E c \in VisualizationConfigs : SetVisualizationConfig(c)
SpecCache == InitCache /\ [][NextCache]_vars

\* a layer over one feature whose application loads data from sources of
\* every shape, in either mode
InitLoad == Init /\ Len(points) = 1
NextLoad ==
  \/ OnAdd
  \/ OnRemove
  \/ OnDrawLayer
  \/ \E src \in Sources : LoadData(src)
  \/ \E fields \in FieldLists : SetSelectedFields(fields)
SpecLoad == InitLoad /\ [][NextLoad]_vars

\* a layer of either mode whose application changes the grid size and the
\* grid type while the layer is on the map
InitResize == Init
NextResize ==
  \/ OnAdd
  \/ OnDrawLayer
  \/ \E z \in Zooms : MapZoom(z)
  \/ \E g \in GridSizes \cup NewGridSizes : SetGridSize(g)
  \/ \E g \in GridTypes : SetGridType(g)
SpecResize == InitResize /\ [][NextResize]_vars

\* the two discretisers applied on their own, next to a layer that is put
\* on the map and taken off it
InitDiscretiser ==
  Init /\ Len(points) = 1 /\ ~dynamicMode /\ aggregationConfig.fields = Null
NextDiscretiser ==
  \/ OnAdd
  \/ OnRemove
  \/ \E s \in ProbeCellSizes, col \in -MaxCol..MaxCol, row \in -MaxCol..MaxCol :
       GridRoundTrip(s, col, row)
  \/ \E s \in ProbeCellSizes, col \in -MaxCol..MaxCol, row \in -MaxCol..MaxCol :
       HexRoundTrip(s, col, row)
SpecDiscretiser == InitDiscretiser /\ [][NextDiscretiser]_vars

\* sequences of getBoundary calls on the hexagonal discretiser of a layer
InitBoundary == Init /\ Len(points) = 1 /\ ~dynamicMode
NextBoundary ==
  \/ OnAdd
  \/ OnRemove
  \/ \E col \in 0..1, row \in 0..1, pad \in BoundaryPaddings :
       GetBoundary(col, row, pad)
SpecBoundary == InitBoundary /\ [][NextBoundary]_vars

\* the data processor applied on its own to a field or bucket given at the
\* start, next to a layer that is put on the map and taken off it
InitProcessor ==
  /\ InitLayer /\ Len(points) = 1 /\ ~dynamicMode
  /\ gridType = "square" /\ aggregationConfig.fields = Null
  /\ probe \in { Given(values) :
                   values \in Fields(WordValues) \cup Fields(CsvTokens)
                                \cup Fields(BucketValues) }
NextProcessor ==
  \/ OnAdd
  \/ OnRemove
  \/ DetectDataType
  \/ LoadCsvColumn
  \/ \E aggregationType \in {"sum", "mean", "mode"} :
       ApplyAggregation(aggregationType)
SpecProcessor == InitProcessor /\ [][NextProcessor]_vars

\* a static layer redrawn by the view-settled events of its map only, over
\* an index that may raise
InitDegraded == Init /\ ~dynamicMode
NextDegraded ==
  \/ OnAdd
  \/ OnRemove
  \/ \E z \in Zooms : MapZoom(z)
  \/ \E p \in Pans : MapMove(p)
  \/ \E ev \in {"zoomend", "moveend"} : MapChangeEnd(ev)
  \/ \E b \in BOOLEAN : IndexFault(b)
SpecDegraded == InitDegraded /\ [][NextDegraded]_vars

\* a static layer whose data layer also receives features without properties
InitFeatures == Init /\ ~dynamicMode /\ Len(points) = 1
NextFeatures ==
  \/ OnAdd
  \/ OnDrawLayer
  \/ \E z \in Zooms : MapZoom(z)
  \/ \E f \in Sites \cup FeaturesWithoutProperties : AddLayer(f)
  \/ \E i \in 1..MaxPoints : RemoveLayer(i)
SpecFeatures == InitFeatures /\ [][NextFeatures]_vars

\* -------------------------------------------------------------- properties
\* C1: in static mode, when a calculateGridData pass directly follows another
\* one (no view, data or option change in between), the second pass takes the
\* cache-hit branch and leaves gridData as the first pass left it.
C1_RepeatedPassIsHit ==
  [][IsPass(last) /\ IsPass(last')
       => last'.branch = "hit" /\ gridData' = gridData]_vars
\* a second pass in a row has run over a snapshot with cells
C1_Witness ==
  IsPass(last) /\ last.prevPass /\ last.branch = "hit" /\ Len(gridData) > 0

\* C2: in static mode, whenever a calculateGridData pass is a cache hit,
\* gridData is exactly the snapshot built by the pass that recorded the key.
C2_HitServesRecordedSnapshot ==
  IsPass(last) /\ last.branch = "hit" => gridData = keySnapshot

\* C3: in dynamic mode a burst of zoom, move and mousemove events, each less
\* than dynamicThrottle ms after the one before, is answered by one recompute:
\* the events recompute nothing themselves, the burst keeps exactly one
\* timeout pending, and the timeout runs one recompute dynamicThrottle ms
\* after the last event; never is more than one timeout pending.
C3_BurstCoalesces ==
  /\ Cardinality(timers) <= 1
  /\ (unanswered > 0 <=> timers # {})
  /\ (last.op \in {"zoom", "move", "mousemove"} => last.recomputes = 0)
  /\ (last.op = "timer"
        => last.recomputes = 1 /\ last.burst >= 1 /\ last.waited = DynamicThrottle)
\* a timeout has answered a burst of at least two events with one recompute
C3_Witness == last.op = "timer" /\ last.burst >= 2 /\ last.recomputes = 1

\* C4 as stated: in dynamic mode every recompute that an event leads to, the
\* ones of the view-settled events zoomend and moveend included, runs only
\* once dynamicThrottle ms have passed since the latest zoom, move or
\* mousemove event.
C4_EveryRecomputeWaitsThrottle ==
  last.recomputes > 0 /\ last.op \in {"timer", "zoomend", "moveend"}
    => last.waited >= DynamicThrottle
\* C4 amended: a recompute run by a timeout runs exactly dynamicThrottle ms
\* after the latest zoom, move or mousemove event, each of which replaces the
\* pending timeout; zoomend and moveend recompute at once while the layer is
\* on the map, and leave a pending timeout pending.
C4_ThrottledUnlessViewSettled ==
  /\ (last.op = "timer" => last.waited = DynamicThrottle)
  /\ (last.op \in {"zoom", "move", "mousemove"} /\ attached
        => /\ last.recomputes = 0
           /\ \E t \in timers : timers = {t} /\ dynamicUpdateTimer = Some(t.id))
  /\ (last.op \in {"zoomend", "moveend"} /\ attached => last.recomputes = 1)
  /\ (unanswered > 0 => \E t \in timers : dynamicUpdateTimer = Some(t.id))
\* zoomend or moveend has recomputed while a younger timeout was pending
C4_Witness ==
  /\ last.op \in {"zoomend", "moveend"} /\ last.recomputes = 1
  /\ timers # {} /\ last.waited < DynamicThrottle

\* C5: onRemove cancels a pending throttled recompute: off the map no timeout
\* is pending (so none can run), the handle is null, and onRemove leaves
\* gridData and the index empty.
C5_RemoveCancelsPending ==
  /\ (~attached => timers = {} /\ dynamicUpdateTimer = Null)
  /\ (last.op = "onRemove" => gridData = <<>> /\ tree = <<>> /\ unanswered = 0)
\* onRemove has run while a timeout was pending
C5_Witness == last.op = "onRemove" /\ last.burst >= 1 /\ timers = {}

\* C6 as stated: no aggregation pass, static or dynamic, raises, whatever
\* state the public operations have led to.
C6_PassNeverRaises ==
  last.op \in {"calculateGridData", "onDrawLayer", "timer", "zoomend", "moveend"}
    => ~last.raised

\* C7 as stated: a static square pass over n >= 1 features that all lie
\* within the extent of one cell (their bounding box spans less than gridSize
\* on the screen in x and in y) builds exactly one cell, with count n and n
\* attribute records.
C7_ClusterMakesOneCell ==
  /\ IsPass(last) /\ last.branch = "miss" /\ gridType = "square"
  /\ boundsToScreen(getBounds).southEast[1]
       - boundsToScreen(getBounds).northWest[1] < gridSize
  /\ boundsToScreen(getBounds).southEast[2]
       - boundsToScreen(getBounds).northWest[2] < gridSize
  => /\ Len(gridData) = 1
     /\ gridData[1].count = Len(points)
     /\ Len(gridData[1].attributes) = Len(points)

\* C8 as stated: with the default aggregationConfig, once the layer is on the
\* map and a draw pass has computed the grid with a feature in the viewport,
\* gridData is not empty, whatever the mode and the grid type.
C8_FirstDrawFillsGrid ==
  /\ attached /\ aggregationConfig.fields = Null
  /\ last.op \in {"onDrawLayer", "calculateGridData"}
  /\ last.branch \in {"dynamic", "miss"} /\ (dynamicMode \/ last.keyWasNull)
  /\ \E i \in 1..Len(points) : isPointVisible(latLngToScreen(points[i]))
  => Len(gridData) > 0

\* C9: invalidateCache leaves every field of the key null and discards the
\* cached screen points and pointer position; a null key stays null until a
\* static pass ends it, and the static pass that meets a null key is a miss
\* that rebuilds the snapshot from the current view and data layer and
\* records the key of the state it ran in.
C9_InvalidateForcesRebuild ==
  /\ [](last.op = "invalidateCache"
          => keyIsNull /\ cachedScreenData = Null /\ cachedMousePos = Null)
  /\ [](IsPass(last) /\ last.keyWasNull
          => /\ last.branch = "miss"
             /\ gridData = gridDataFromPoints /\ tree = points
             /\ ~keyIsNull /\ ~needsRecalculation)
  /\ [][keyIsNull /\ ~keyIsNull'
          => IsPass(last') /\ last'.keyWasNull /\ last'.branch = "miss"]_vars
\* a static pass has rebuilt a non-empty snapshot after invalidateCache
\* emptied a key that an earlier pass had recorded
C9_Witness ==
  /\ IsPass(last) /\ last.keyWasNull /\ last.branch = "miss"
  /\ Len(gridData) > 0 /\ Len(keySnapshot) > 0 /\ Len(points) > 1 /\ zoom = 1

\* C10: loadData, setSelectedFields and setVisualizationConfig each leave the
\* key null, so that the next static pass has to recompute, and the static
\* pass that meets the null key is a miss whose cells carry the aggregation
\* of the configuration then in force.
C10_ConfigChangeForcesRebuild ==
  /\ (last.op \in {"loadData", "setSelectedFields", "setVisualizationConfig"}
        => keyIsNull /\ (~dynamicMode => needsRecalculation))
  /\ (last.op = "loadData" => dataSchema # Null)
  /\ (last.op = "setVisualizationConfig" => visualizationConfig # Null)
  /\ (last.op = "setSelectedFields" /\ dataSchema # Null
        => hasFields(aggregationConfig))
  /\ (IsPass(last) /\ last.keyWasNull
        => /\ last.branch = "miss"
           /\ \A k \in 1..Len(gridData) :
                gridData[k].aggregated =
                  IF hasFields(aggregationConfig) THEN aggregationConfig.fields
                  ELSE Null)
\* a static pass has recomputed cells with the fields selected after a load
C10_Witness ==
  /\ IsPass(last) /\ last.keyWasNull /\ last.branch = "miss"
  /\ dataSchema # Null /\ visualizationConfig # Null
  /\ Len(gridData) > 0 /\ gridData[1].aggregated = Some(<<"value">>)

\* C11: a loadData call whose source is neither a string, a FeatureCollection
\* nor an array is rejected, and it leaves the processed records, the schema,
\* the global statistics and the cache key as they were before the call.
C11_UnsupportedSourceRejected ==
  [][\A src \in Sources :
       src.shape \notin SupportedShapes /\ LoadData(src)
         => /\ last'.op = "loadData" /\ last'.raised
            /\ UNCHANGED <<processedData, dataSchema, globalStats, keyVars>>]_vars
\* a source of no recognised shape was rejected by a layer that holds loaded
\* records, a schema, statistics and a recorded key
C11_Witness ==
  /\ last.op = "loadData" /\ last.raised
  /\ processedData # Null /\ dataSchema # Null /\ globalStats # Null
  /\ ~keyIsNull

\* C12: on an attached layer of either mode, once gridSize or gridType has
\* been changed and invalidateCache() and _redraw() have run, every cell of
\* the snapshot the layer holds is a cell of the grid of the new size and
\* type: a hexagon or a dynamic cell is centred where the discretiser of the
\* current gridSize puts its (col, row), a static square cell lies a whole
\* number of strides of the current gridSize from the north-west corner.
C12_SnapshotFollowsGridSize ==
  last.op \in {"setGridSize", "setGridType"} =>
    \A k \in 1..Len(gridData) :
      IF dynamicMode \/ gridType = "hexagon"
      THEN /\ "col" \in DOMAIN gridData[k]
           /\ << gridData[k].x, gridData[k].y >> =
                (IF gridType = "square"
                 THEN gridGetXYCentre2(gridSize, gridData[k].col, gridData[k].row)
                 ELSE hexGetXYCentre2(gridSize, gridData[k].col, gridData[k].row))
      ELSE /\ "col" \notin DOMAIN gridData[k]
           /\ (gridData[k].x - boundsToScreen(getBounds).northWest[1])
                % (gridSize + padding) = 0
           /\ (gridData[k].y - boundsToScreen(getBounds).northWest[2])
                % (gridSize + padding) = 0

\* C13: for the square discretiser of every cell size, getColRow applied to
\* getXYCentre(col, row) is (col, row) for every integer column and row, the
\* negative ones included.
C13_GridRoundTrip ==
  probe.fn = "gridRoundTrip" => probe.result = << probe.args[2], probe.args[3] >>

\* C14: for the hexagonal discretiser, getColRow applied to
\* getXYCentre(col, row) is (col, row) for every integer column and row, odd
\* and negative columns included.
C14_HexRoundTrip ==
  probe.fn = "hexRoundTrip" => probe.result = << probe.args[2], probe.args[3] >>
\* the round trip has been made from an odd negative column
C14_Witness ==
  /\ probe.fn = "hexRoundTrip"
  /\ probe.args[2] < 0 /\ probe.args[2] % 2 = 1 /\ probe.args[3] < 0
  /\ probe.result = << probe.args[2], probe.args[3] >>

\* C15: for every square cell of a snapshot, static or dynamic, and for
\* padding p (0 included), getBoundary(p) is the four corners of the
\* axis-aligned square of side s - 2p whose centre is the centre the cell
\* reports with getXCentre() and getYCentre().
C15_BoundaryCentredOnCell ==
  gridType = "square" =>
    \A k \in 1..Len(gridData), p \in Paddings \cup {0} :
      LET cell == gridData[k]
          unit == "col" \in DOMAIN cell
          s == IF unit THEN discretizerSize ELSE gridSize
          centre2 == IF unit THEN << cell.x, cell.y >>
                     ELSE squareCellGetCentre2(gridSize, cell)
          boundary2 == IF unit
                       THEN gridGetBoundary2(discretizerSize, cell.col, cell.row, p)
                       ELSE squareCellGetBoundary2(gridSize, cell, p)
      IN Range(boundary2) =
           { << centre2[1] + dx * (s - 2 * p), centre2[2] + dy * (s - 2 * p) >> :
               dx \in {-1, 1}, dy \in {-1, 1} }

\* C16: schema inference types a field of text values (no number, no date)
\* as ordinal only when the set of its distinct lowercased values is exactly
\* one of the five vocabularies: a whole vocabulary plus another value is
\* nominal, and two or fewer distinct values are never ordinal.
C16_OrdinalOnlyOnExactVocabulary ==
  /\ probe.fn = "detectDataType" /\ IsField(probe.args, WordValues)
  /\ probe.result = "ordinal"
  =>
    /\ { toLowerCase(toString(v)) : v \in Range(probe.args) } \in ordinalPatterns
    /\ Cardinality(Range(probe.args)) > 2

\* C17: the mode aggregation returns a value of highest frequency in the
\* bucket, and among several of highest frequency the one that occurs first
\* in the order of the bucket.
C17_ModeTieGoesToFirst ==
  probe.fn = "mode" =>
    \E i \in 1..Len(probe.args) :
      /\ probe.result = Str(keyOf(probe.args[i]))
      /\ \A j \in 1..Len(probe.args) :
           /\ frequencyOf(probe.args, keyOf(probe.args[j]))
                <= frequencyOf(probe.args, keyOf(probe.args[i]))
           /\ (frequencyOf(probe.args, keyOf(probe.args[j]))
                 = frequencyOf(probe.args, keyOf(probe.args[i])) => i <= j)

\* C18: sum and mean are taken over the numeric values of the bucket only:
\* the sum is the total of the numeric entries and the mean is that total
\* over the number of numeric entries, whatever other entries there are.
C18_SumAndMeanOverNumbersOnly ==
  LET numeric == SelectSeq(probe.args, LAMBDA v : v[1] = "num")
  IN /\ (probe.fn = "sum" => probe.result = reduceSum(numeric, Num(0)))
     /\ (probe.fn = "mean" /\ Len(numeric) > 0 =>
           /\ probe.result[1] = "ratio"
           /\ probe.result[2] * Len(numeric)
                = reduceSum(numeric, Num(0))[2] * probe.result[3])

\* C19: a CSV column whose non-empty cells are all date strings (none of them
\* a number) is typed temporal.
C19_DateColumnIsTemporal ==
  probe.fn = "loadCSV"
    /\ (\E i \in 1..Len(probe.args) : probe.args[i] # Str(""))
    /\ (\A i \in 1..Len(probe.args) :
          probe.args[i] # Str("") =>
            /\ numberOfString(probe.args[i][2]) = NaN
            /\ timeOfString(probe.args[i][2]) # NaN)
    => probe.result = "temporal"

\* C20: in static mode, when a pass has rebuilt the snapshot while the
\* queries of its cells failed and were degraded to empty results, the pass
\* of the next view-settled event (zoomend or moveend) rebuilds the snapshot
\* again, also when it follows at once with view, grid and data unchanged.
C20_DegradedPassIsRetried ==
  [][/\ IsPass(last) /\ last.branch = "miss"
     /\ searchThrows /\ cellsQueried > 0
     /\ IsPass(last')
     => last'.branch = "miss"]_vars

\* C21: in static mode, after every cache miss the spatial index the cells
\* were queried against holds exactly the current point records of the data
\* layer, whatever caused the miss and whatever the data hash.
C21_MissQueriesCurrentPoints ==
  IsPass(last) /\ last.branch = "miss" => tree = points

\* C22: in dynamic mode every view-settled event (zoomend, moveend) discards
\* the cached screen points and its recompute rebuilds them from the current
\* view, and a throttled recompute of a pointer-move event that finds a
\* cached list reuses it as it is.
C22_SettledRebuildsPointerReuses ==
  [][ /\ (/\ last'.op \in {"zoomend", "moveend"}
          /\ last'.recomputes = 1)
         => cachedScreenData' = Some(processScreenData')
      /\ \A t \in timers :
           (/\ t.left = 0 /\ t.e # Null /\ timers' = timers \ {t}
            /\ last'.op = "timer" /\ cachedScreenData # Null)
           => /\ last'.recomputes = 1
              /\ cachedScreenData' = cachedScreenData ]_vars
\* a pointer-move recompute has run on a list that a settled view had built
\* and that holds points
C22_Witness ==
  /\ last.op = "timer" /\ last.recomputes = 1
  /\ cachedMousePos # Null
  /\ cachedScreenData # Null /\ Len(cachedScreenData[1]) > 0
  /\ Len(gridData) > 0

\* C23 as stated: the snapshot of every dynamic recompute buckets the points
\* by their screen positions under the view that is current when the
\* recompute runs, also for the throttled recomputes of zoom and move events
\* that run before the view has settled.
C23_RecomputeUsesCurrentView ==
  (/\ last.branch = "dynamic" /\ last.recomputes = 1 /\ ~last.raised)
  => gridData = dynamicGridDataOf(processScreenData).gridData

\* C24: the two modes leave each other's state alone. In dynamic mode no
\* event of the map, draw pass or recompute (every step but onRemove) writes
\* the grid origin, zoom, grid size, padding, grid type or data hash of the
\* static key, or the spatial index; in static mode no step schedules a
\* throttled recompute or fills the cached screen-point list.
C24_ModesKeepApart ==
  [][ /\ (dynamicMode /\ ~(attached /\ ~attached'))
         => UNCHANGED <<cachedGridOriginX, cachedGridOriginY, cachedZoom,
                        cachedGridSize, cachedPadding, cachedGridType,
                        dataHash, tree>>
      /\ ~dynamicMode
         => /\ timers' = {} /\ dynamicUpdateTimer' = Null
            /\ cachedScreenData' = Null ]_vars
\* a dynamic layer has been drawn and recomputed by a timer with the static
\* key and index still as initialize left them
C24_Witness ==
  /\ dynamicMode /\ last.op = "timer" /\ last.recomputes = 1
  /\ Len(gridData) > 0 /\ cachedScreenData # Null
  /\ keyIsNull /\ tree = <<>>

\* C25 as stated: after every dynamic recompute (no custom aggregation
\* callback is modelled) the snapshot partitions the cached screen-point
\* list: every point of the list is in exactly one cell, the one its
\* discretiser id names, the counts of the cells sum to the length of the
\* list, and every cell has a count of at least one that is the length of
\* its attributes list.
C25_SnapshotPartitionsScreenData ==
  (/\ last.branch = "dynamic" /\ last.recomputes = 1
   /\ cachedScreenData # Null)
  => LET sum[k \in 0..Len(gridData)] ==
           IF k = 0 THEN 0 ELSE sum[k - 1] + gridData[k].count
     IN /\ \A i \in 1..Len(cachedScreenData[1]) :
             Cardinality({ k \in 1..Len(gridData) :
               << gridData[k].col, gridData[k].row >>
                 = discGetColRow(gridType,
                                 cachedScreenData[1][i].screenPoint[1],
                                 cachedScreenData[1][i].screenPoint[2]) }) = 1
        /\ sum[Len(gridData)] = Len(cachedScreenData[1])
        /\ \A k \in 1..Len(gridData) :
             /\ gridData[k].count >= 1
             /\ gridData[k].count = Len(gridData[k].attributes)

\* C26 as stated: every cell of a static snapshot has a count of at least
\* one that is the number of point records the spatial index returns for
\* the bounds of the cell, and an attributes list with one entry per such
\* record, with or without aggregation fields.
C26_CountIsQueryResult ==
  (IsPass(last) /\ last.branch = "miss")
  => \A k \in 1..Len(gridData) :
       /\ gridData[k].count >= 1
       /\ gridData[k].count = Len(treeSearch(tree, gridData[k].bounds))
       /\ Len(gridData[k].attributes) = gridData[k].count

\* C27 as stated: in a static snapshot, square or hexagon, no point record
\* is counted in more than one cell: the counts of the cells sum to at most
\* the number of point records of the data layer.
C27_NoPointCountedTwice ==
  (IsPass(last) /\ last.branch = "miss")
  => LET sum[k \in 0..Len(gridData)] ==
           IF k = 0 THEN 0 ELSE sum[k - 1] + gridData[k].count
     IN sum[Len(gridData)] <= Len(points)

\* C28 as stated: on one hexagonal discretiser, after any sequence of
\* getBoundary calls with any paddings, the result of a call is the result a
\* freshly built discretiser of the same cell size gives for the same
\* (col, row, padding), and padding 0 gives the boundary of the unpadded
\* parameter set.
C28_BoundaryIndependentOfHistory ==
  probe.fn = "getBoundary"
  => /\ probe.result
          = << getBoundaryOn(Null, Null, discretizerSize, probe.args[1],
                             probe.args[2], probe.args[3]).raised,
               getBoundaryOn(Null, Null, discretizerSize, probe.args[1],
                             probe.args[2], probe.args[3]).coords >>
     /\ probe.args[3] = 0
        => probe.result
             = << FALSE,
                  hexBoundaryWith(getHexParams(discretizerSize),
                                  getHexParams(discretizerSize),
                                  probe.args[1], probe.args[2], 0) >>

\* C29 as stated: in dynamic mode, while zoom, move and mousemove events keep
\* arriving less than dynamicThrottle ms apart, the grid is still recomputed
\* again and again by the throttle, not only once the events have stopped.
C29_BurstStillRecomputes ==
  <>[](attached /\ sinceEvent < DynamicThrottle)
    => []<>(last.op = "timer" /\ last.recomputes = 1)

\* C30 as stated: for any sequence of onAdd, onRemove and assignments to the
\* dynamicMode field, once onRemove has run none of the handlers of the
\* layer (_onDynamicEvent, _onMapChangeEnd, _redraw, _onMouseMove) is
\* subscribed to the map.
C30_RemoveUnsubscribesAll ==
  ~attached
  => subs \cap (DynamicHandlers \cup StaticHandlers \cup {"_onMouseMove"}) = {}
====
